---- MODULE Spec2Model ----
(***************************************************************************)
(* Model of airmine.py: great circle distances between all unique pairs of *)
(* places, the average distance and the pair closest to the average.       *)
(*                                                                         *)
(* Floating point numbers are modelled as fixed point numbers with Scale   *)
(* units per 1.0, every multiplication and division rounding to nearest,   *)
(* so that rounding error is present in the model as it is in the doubles  *)
(* of the program (with fewer digits, so which inputs round up and which  *)
(* round down differs from the doubles).  Degrees are whole numbers.       *)
(***************************************************************************)
EXTENDS Integers, Sequences, FiniteSets, TLC

VARIABLES
    argv,                \* sys.argv[1:]: <<>> or <<a>>, a an argument
    pc,                  \* the statement main() is at
    n,                   \* main's n: <<>> is None, <<k>> the integer k
    file,                \* what places.csv held when it was read
    source,              \* which branch of get_data produced the data
    data,                \* the DataFrame, a sequence of rows
    pairs,               \* list of (place 1, place 2)
    coordinates,         \* the working array of pairs_and_great_circle_distances
    distances,           \* the array of distances
    average_distance,
    closest_pair_index,  \* 0-based, as np.argmin returns it
    output,              \* the lines printed to stdout
    error,               \* the exception that ended the run ("" while none)
    message,             \* what sys.exit was given to print ("" while nothing)
    status               \* the exit status of the process

vars == <<argv, pc, n, file, source, data, pairs, coordinates, distances,
          average_distance, closest_pair_index, output, error, message, status>>

-----------------------------------------------------------------------------
(* Bounds of the model *)

MaxPlaces == 3
Scale == 10000
SeriesTerms == 6

-----------------------------------------------------------------------------
(* Numbers *)

EARTH_RADIUS == 6371

\* The value np.arccos returns outside [-1, 1]; every number of the model that
\* can be NaN is otherwise >= 0.
NaN == -1

\* a / b rounded to nearest, for a >= 0 and b > 0.
RoundDiv(a, b) == (2 * a + b) \div (2 * b)

SRoundDiv(a, b) == IF a >= 0 THEN RoundDiv(a, b) ELSE -RoundDiv(-a, b)

\* The product of two fixed point numbers, rounded.
FMul(a, b) == SRoundDiv(a * b, Scale)

Abs(x) == IF x < 0 THEN -x ELSE x

\* np.pi
Pi == RoundDiv(355 * Scale, 113)

HalfPi == RoundDiv(355 * Scale, 226)

\* x /= (180 / np.pi) for x in whole degrees: x * pi / 180, rounded.
Radians(deg) == SRoundDiv(deg * Pi, 180)

RECURSIVE SinSeries(_, _, _, _)
SinSeries(x, k, term, acc) ==
    IF k = SeriesTerms THEN acc
    ELSE SinSeries(x, k + 1,
                   RoundDiv(FMul(FMul(term, x), x), (2 * k + 2) * (2 * k + 3)),
                   acc + (IF k % 2 = 0 THEN term ELSE -term))

\* sin on [0, pi/2], never above 1.
SinQuadrant(x) ==
    LET s == SinSeries(x, 0, x, 0) IN IF s > Scale THEN Scale ELSE s

\* sin on [0, pi]
SinHalfTurn(y) == IF y > HalfPi THEN SinQuadrant(Pi - y) ELSE SinQuadrant(y)

\* np.sin
Sin(x) ==
    LET y == Abs(x) % (2 * Pi)
        s == IF y > Pi THEN -SinHalfTurn(y - Pi) ELSE SinHalfTurn(y)
    IN IF x < 0 THEN -s ELSE s

\* np.cos
Cos(x) == Sin(Abs(x) + HalfPi)

\* The least angle in lo..hi whose cosine is <= y (cos decreases on [0, pi]).
RECURSIVE ArcCosSearch(_, _, _)
ArcCosSearch(y, lo, hi) ==
    IF lo >= hi THEN lo
    ELSE LET mid == (lo + hi) \div 2
         IN IF Cos(mid) <= y THEN ArcCosSearch(y, lo, mid)
            ELSE ArcCosSearch(y, mid + 1, hi)

\* np.arccos: NaN outside [-1, 1].
ArcCos(y) ==
    IF y > Scale \/ y < -Scale THEN NaN ELSE ArcCosSearch(y, 0, Pi)

\* EARTH_RADIUS * arccos(sin(lat1) sin(lat2) + cos(lat1) cos(lat2) cos(long1 - long2)),
\* in units of 1/Scale km; nothing clamps the argument of arccos.
great_circle_distance(lat1, long1, lat2, long2) ==
    LET arg == FMul(Sin(lat1), Sin(lat2))
               + FMul(FMul(Cos(lat1), Cos(lat2)), Cos(long1 - long2))
        a == ArcCos(arg)
    IN IF a = NaN THEN NaN ELSE EARTH_RADIUS * a

-----------------------------------------------------------------------------
(* Arrays of numbers that may be NaN *)

RECURSIVE Sum(_)
Sum(s) == IF s = <<>> THEN 0 ELSE s[1] + Sum(Tail(s))

HasNaN(s) == \E i \in 1..Len(s) : s[i] = NaN

\* ndarray.mean() of a non-empty array: NaN as soon as one entry is NaN.
Mean(s) == IF HasNaN(s) THEN NaN ELSE RoundDiv(Sum(s), Len(s))

\* abs(a - b) elementwise; NaN where either side is NaN.
AbsDifference(a, s) ==
    [i \in 1..Len(s) |-> IF a = NaN \/ s[i] = NaN THEN NaN ELSE Abs(a - s[i])]

\* np.argmin of a non-empty array, 0-based: the first NaN when there is one,
\* otherwise the first occurrence of the minimum.
ArgMin(s) ==
    IF HasNaN(s)
    THEN (CHOOSE i \in 1..Len(s) :
              s[i] = NaN /\ \A j \in 1..(i - 1) : s[j] # NaN) - 1
    ELSE (CHOOSE i \in 1..Len(s) :
              /\ \A j \in 1..Len(s) : s[i] <= s[j]
              /\ \A j \in 1..(i - 1) : s[j] > s[i]) - 1

-----------------------------------------------------------------------------
(* Command line arguments *)

Digits == <<"0", "1", "2", "3", "4", "5", "6", "7", "8", "9">>

IsDigit(c) == \E d \in 1..10 : Digits[d] = c

DigitValue(c) == (CHOOSE d \in 1..10 : Digits[d] = c) - 1

RECURSIVE DigitsValue(_, _)
DigitsValue(s, acc) ==
    IF s = <<>> THEN acc ELSE DigitsValue(Tail(s), 10 * acc + DigitValue(s[1]))

AllDigits(s) == s # <<>> /\ \A i \in 1..Len(s) : IsDigit(s[i])

\* Whether int(a) succeeds: an optional sign, then digits.  a is the argument
\* as a sequence of characters.
IsInteger(a) ==
    /\ a # <<>>
    /\ IF a[1] \in {"-", "+"} THEN AllDigits(Tail(a)) ELSE AllDigits(a)

\* int(a), for an a that IsInteger.
int(a) ==
    IF a[1] = "-" THEN -DigitsValue(Tail(a), 0)
    ELSE IF a[1] = "+" THEN DigitsValue(Tail(a), 0)
    ELSE DigitsValue(a, 0)

\* The arguments tried: not integers, integers below 2, counts up to MaxPlaces.
Arguments ==
    {<<"x">>, <<"2", ".", "5">>, <<"-", "1">>}
        \cup {<<Digits[k + 1]>> : k \in 0..MaxPlaces}

\* A check that lets a count of 1 through.
TooFewOffByOne(k) == k < 1

\* n < 2
TooFew(k) == k < 2

-----------------------------------------------------------------------------
(* Places *)

\* The lines places.csv may hold: the name in the first column, then Latitude
\* and Longitude in degrees.  Two names share a position, two positions a name.
FileLines ==
    {<<"LHR", 51, 0>>, <<"SYD", -34, 151>>, <<"JFK", -34, 151>>,
     <<"JFK", 12, 0>>, <<"SYD", 12, 0>>}

SeqsUpTo(S, m) == UNION {[1..k -> S] : k \in 0..m}

FileContents ==
    {[kind |-> "missing", lines |-> <<>>], [kind |-> "unparsable", lines |-> <<>>]}
        \cup {[kind |-> "lines", lines |-> l] : l \in SeqsUpTo(FileLines, MaxPlaces)}

Unread == [kind |-> "unread", lines |-> <<>>]

\* pd.read_csv("places.csv", index_col=0): one row per line, indexed by the
\* first column; nothing checks that the index is unique.
read_csv(lines) ==
    [i \in 1..Len(lines) |->
        [Name |-> lines[i][1], Latitude |-> lines[i][2], Longitude |-> lines[i][3]]]

\* The samples of np.random.rand tried, in thirds: 0 and 2/3.
RandSamples == {0, 2}

\* rand * width - offset, for a sample in thirds
Spread(u, width, offset) == (u * width) \div 3 - offset

\* generate_places(n); u1 and u2 are the two arrays np.random.rand(n) returns.
\* The array drawn over 360 degrees goes to the Latitude column, the one drawn
\* over 180 degrees to the Longitude column.
generate_places(k, u1, u2) ==
    LET long == [i \in 1..k |-> Spread(u1[i], 360, 180)]
        lat == [i \in 1..k |-> Spread(u2[i], 180, 90)]
        places == [i \in 1..k |-> "Place " \o ToString(i - 1)]
    IN [i \in 1..k |->
           [Name |-> places[i], Latitude |-> long[i], Longitude |-> lat[i]]]

\* df.itertuples(): named tuples (Index, Latitude, Longitude), in row order.
itertuples(df) ==
    [i \in 1..Len(df) |->
        [Index |-> df[i].Name, Latitude |-> df[i].Latitude,
         Longitude |-> df[i].Longitude]]

-----------------------------------------------------------------------------
(* pairs_and_great_circle_distances *)

\* The pairs (s[i], s[j]) with i < j, for i from `from` on: for each i in
\* turn, every later j in turn.
RECURSIVE CombinationsFrom(_, _)
CombinationsFrom(s, from) ==
    IF from >= Len(s) THEN <<>>
    ELSE [j \in 1..(Len(s) - from) |-> <<s[from], s[from + j]>>]
             \o CombinationsFrom(s, from + 1)

\* Pairs that may hold the same element twice, as
\* itertools.combinations_with_replacement gives them.
RECURSIVE WithReplacementFrom(_, _)
WithReplacementFrom(s, from) ==
    IF from > Len(s) THEN <<>>
    ELSE [j \in 1..(Len(s) - from + 1) |-> <<s[from], s[from + j - 1]>>]
             \o WithReplacementFrom(s, from + 1)

combinations_with_replacement(s) == WithReplacementFrom(s, 1)

\* The same pairs, each with its later element first.
combinations_reversed(s) ==
    LET c == CombinationsFrom(s, 1)
    IN [k \in 1..Len(c) |-> <<c[k][2], c[k][1]>>]

\* itertools.combinations(s, 2)
combinations(s) == CombinationsFrom(s, 1)

\* The row with longitude and latitude exchanged.
CoordinateRowLongLat(p1, p2) ==
    <<p1.Longitude, p1.Latitude, p2.Longitude, p2.Latitude>>

\* [p1.Latitude, p1.Longitude, p2.Latitude, p2.Longitude]
CoordinateRow(p1, p2) ==
    <<p1.Latitude, p1.Longitude, p2.Latitude, p2.Longitude>>

\* coordinates.T as a tuple: the four columns of a non-empty array; an array
\* built from no pairs has no columns.
Columns(c) ==
    IF c = <<>> THEN <<>>
    ELSE [k \in 1..4 |-> [i \in 1..Len(c) |-> c[i][k]]]

\* great_circle_distance on arrays: elementwise.
great_circle_distances(lat1, long1, lat2, long2) ==
    [i \in 1..Len(lat1) |->
        great_circle_distance(lat1[i], long1[i], lat2[i], long2[i])]

-----------------------------------------------------------------------------
(* main *)

Init ==
    /\ argv \in {<<>>} \cup {<<a>> : a \in Arguments}
    /\ pc = "parse_args"
    /\ n = <<>>
    /\ file = Unread
    /\ source = "none"
    /\ data = <<>>
    /\ pairs = <<>>
    /\ coordinates = <<>>
    /\ distances = <<>>
    /\ average_distance = 0
    /\ closest_pair_index = 0
    /\ output = <<>>
    /\ error = ""
    /\ message = ""
    /\ status = 0

\* An uncaught exception, or sys.exit with a message: the process ends with
\* status 1.
Raise(e, m) ==
    /\ pc' = "exit"
    /\ error' = e
    /\ message' = m
    /\ status' = 1

\* main, lines 106-117
ParseArgs ==
    /\ pc = "parse_args"
    /\ IF Len(argv) > 0
       THEN IF ~IsInteger(argv[1])
            THEN /\ Raise("SystemExit", "Number of places must be an integer")
                 /\ n' = n
            ELSE /\ n' = <<int(argv[1])>>
                 /\ IF TooFew(int(argv[1]))
                    THEN Raise("SystemExit", "Number of places must be at least 2")
                    ELSE /\ pc' = "get_data"
                         /\ UNCHANGED <<error, message, status>>
       ELSE /\ n' = n
            /\ pc' = "get_data"
            /\ UNCHANGED <<error, message, status>>
    /\ UNCHANGED <<argv, file, source, data, pairs, coordinates, distances,
                   average_distance, closest_pair_index, output>>

\* get_data(None): the file is read as it is at that moment.
GetDataFromFile ==
    /\ pc = "get_data"
    /\ n = <<>>
    /\ \E f \in FileContents :
        /\ file' = f
        /\ IF f.kind = "missing"
           THEN /\ Raise("FileNotFoundError", "")
                /\ UNCHANGED <<source, data>>
           ELSE IF f.kind = "unparsable"
           THEN /\ Raise("ParserError", "")
                /\ UNCHANGED <<source, data>>
           ELSE /\ data' = read_csv(f.lines)
                /\ source' = "file"
                /\ pc' = "pairs"
                /\ UNCHANGED <<error, message, status>>
    /\ UNCHANGED <<argv, n, pairs, coordinates, distances, average_distance,
                   closest_pair_index, output>>

\* get_data(n)
GetDataRandom ==
    /\ pc = "get_data"
    /\ n # <<>>
    /\ \E u1, u2 \in [1..n[1] -> RandSamples] :
        data' = generate_places(n[1], u1, u2)
    /\ source' = "random"
    /\ pc' = "pairs"
    /\ UNCHANGED <<argv, n, file, pairs, coordinates, distances,
                   average_distance, closest_pair_index, output, error,
                   message, status>>

\* line 94
EnumeratePairs ==
    /\ pc = "pairs"
    /\ pairs' = combinations(itertuples(data))
    /\ pc' = "coordinates"
    /\ UNCHANGED <<argv, n, file, source, data, coordinates, distances,
                   average_distance, closest_pair_index, output, error,
                   message, status>>

\* lines 96-97
BuildCoordinates ==
    /\ pc = "coordinates"
    /\ coordinates' =
           [i \in 1..Len(pairs) |-> CoordinateRow(pairs[i][1], pairs[i][2])]
    /\ pc' = "radians"
    /\ UNCHANGED <<argv, n, file, source, data, pairs, distances,
                   average_distance, closest_pair_index, output, error,
                   message, status>>

\* A conversion that divides the values of the DataFrame itself, as an array
\* that is a view of the DataFrame would.
ConvertToRadiansInData ==
    /\ pc = "radians"
    /\ coordinates' =
           [i \in 1..Len(coordinates) |->
               [k \in 1..4 |-> Radians(coordinates[i][k])]]
    /\ data' =
           [i \in 1..Len(data) |->
               [Name |-> data[i].Name, Latitude |-> Radians(data[i].Latitude),
                Longitude |-> Radians(data[i].Longitude)]]
    /\ pc' = "distance"
    /\ UNCHANGED <<argv, n, file, source, pairs, distances,
                   average_distance, closest_pair_index, output, error,
                   message, status>>

\* line 98: the working array is divided in place.
ConvertToRadians ==
    /\ pc = "radians"
    /\ coordinates' =
           [i \in 1..Len(coordinates) |->
               [k \in 1..4 |-> Radians(coordinates[i][k])]]
    /\ pc' = "distance"
    /\ UNCHANGED <<argv, n, file, source, data, pairs, distances,
                   average_distance, closest_pair_index, output, error,
                   message, status>>

\* line 99: great_circle_distance takes four arguments; called with the
\* columns of an empty array it gets none, which is a TypeError.
ComputeDistances ==
    /\ pc = "distance"
    /\ LET cols == Columns(coordinates) IN
        IF Len(cols) # 4
        THEN /\ Raise("TypeError", "")
             /\ UNCHANGED distances
        ELSE /\ distances' =
                    great_circle_distances(cols[1], cols[2], cols[3], cols[4])
             /\ pc' = "mean"
             /\ UNCHANGED <<error, message, status>>
    /\ UNCHANGED <<argv, n, file, source, data, pairs, coordinates,
                   average_distance, closest_pair_index, output>>

\* line 126
ComputeMean ==
    /\ pc = "mean"
    /\ average_distance' = Mean(distances)
    /\ pc' = "argmin"
    /\ UNCHANGED <<argv, n, file, source, data, pairs, coordinates, distances,
                   closest_pair_index, output, error, message, status>>

\* line 128
ComputeClosest ==
    /\ pc = "argmin"
    /\ closest_pair_index' = ArgMin(AbsDifference(average_distance, distances))
    /\ pc' = "print_pairs"
    /\ UNCHANGED <<argv, n, file, source, data, pairs, coordinates, distances,
                   average_distance, output, error, message, status>>

\* lines 133-134: one line per pair, in order.  The column width of line 124
\* and the number formats are layout only: a line is kept as its values.
PrintPairs ==
    /\ pc = "print_pairs"
    /\ output' = output \o
           [i \in 1..Len(pairs) |->
               [line |-> "pair", left |-> pairs[i][1].Index,
                right |-> pairs[i][2].Index, km |-> distances[i],
                average |-> 0]]
    /\ pc' = "print_summary"
    /\ UNCHANGED <<argv, n, file, source, data, pairs, coordinates, distances,
                   average_distance, closest_pair_index, error, message, status>>

\* lines 129, 136-137
PrintSummary ==
    /\ pc = "print_summary"
    /\ LET closest_pair == pairs[closest_pair_index + 1] IN
        output' = Append(output,
            [line |-> "summary", left |-> closest_pair[1].Index,
             right |-> closest_pair[2].Index,
             km |-> distances[closest_pair_index + 1],
             average |-> average_distance])
    /\ pc' = "done"
    /\ UNCHANGED <<argv, n, file, source, data, pairs, coordinates, distances,
                   average_distance, closest_pair_index, error, message, status>>

Next ==
    \/ ParseArgs
    \/ GetDataFromFile
    \/ GetDataRandom
    \/ EnumeratePairs
    \/ BuildCoordinates
    \/ ConvertToRadians
    \/ ComputeDistances
    \/ ComputeMean
    \/ ComputeClosest
    \/ PrintPairs
    \/ PrintSummary

Spec == Init /\ [][Next]_vars

-----------------------------------------------------------------------------
(* Properties *)

UniqueNames(df) ==
    \A i, j \in 1..Len(df) : i # j => df[i].Name # df[j].Name

\* The pairs have been enumerated (the run may have ended since).
Enumerated == source # "none" /\ pc # "pairs"

\* pairs_and_great_circle_distances has returned.
Returned == pc \in {"mean", "argmin", "print_pairs", "print_summary", "done"}

PairNames(k) == {pairs[k][1].Index, pairs[k][2].Index}

\* The row of the place named nm, when names are unique.
RowOf(nm) == CHOOSE i \in 1..Len(data) : data[i].Name = nm

\* C1: for a PlaceSet of n places with unique names the enumeration gives
\* n(n-1)/2 pairs, no pair holds a place twice, and every unordered pair of
\* distinct places appears exactly once.
C1_UniquePairs ==
    (Enumerated /\ UniqueNames(data)) =>
        /\ 2 * Len(pairs) = Len(data) * (Len(data) - 1)
        /\ \A k \in 1..Len(pairs) :
               pairs[k][1] # pairs[k][2] /\ pairs[k][1].Index # pairs[k][2].Index
        /\ \A k, l \in 1..Len(pairs) : k # l => PairNames(k) # PairNames(l)
        /\ \A i, j \in 1..Len(data) :
               i # j => \E k \in 1..Len(pairs) :
                            PairNames(k) = {data[i].Name, data[j].Name}

C1_Witness ==
    /\ Enumerated
    /\ UniqueNames(data)
    /\ Len(data) = 3
    /\ Len(pairs) = 3

\* C2: for places p0..p(n-1) in iteration order, every pair (pi, pj) with
\* i < j is emitted with the earlier place first, and (pi, pj) precedes
\* (pk, pl) exactly when i < k, or i = k and j < l.
C2_LexicographicOrder ==
    (Enumerated /\ UniqueNames(data)) =>
        /\ \A i, j \in 1..Len(data) :
               i < j => \E k \in 1..Len(pairs) :
                            /\ pairs[k][1].Index = data[i].Name
                            /\ pairs[k][2].Index = data[j].Name
        /\ \A k \in 1..Len(pairs) :
               RowOf(pairs[k][1].Index) < RowOf(pairs[k][2].Index)
        /\ \A k, l \in 1..Len(pairs) :
               LET i1 == RowOf(pairs[k][1].Index)
                   j1 == RowOf(pairs[k][2].Index)
                   i2 == RowOf(pairs[l][1].Index)
                   j2 == RowOf(pairs[l][2].Index)
               IN (k < l) <=> (i1 < i2 \/ (i1 = i2 /\ j1 < j2))

C2_Witness ==
    /\ Enumerated
    /\ UniqueNames(data)
    /\ Len(data) = 3
    /\ pairs[2][1].Index = data[1].Name
    /\ pairs[2][2].Index = data[3].Name
    /\ pairs[3][1].Index = data[2].Name

\* C3: the distances returned are as many as the pairs, and distances[i] is
\* the great circle distance of the radian values of pairs[i][0]'s latitude
\* and longitude and pairs[i][1]'s latitude and longitude, in that order.
C3_DistancesAligned ==
    Returned =>
        /\ Len(distances) = Len(pairs)
        /\ \A i \in 1..Len(pairs) :
               distances[i] =
                   great_circle_distance(Radians(pairs[i][1].Latitude),
                                         Radians(pairs[i][1].Longitude),
                                         Radians(pairs[i][2].Latitude),
                                         Radians(pairs[i][2].Longitude))

C3_Witness ==
    /\ Returned
    /\ Len(distances) = 3
    /\ distances[1] > 0
    /\ distances[1] # distances[2]
    /\ pairs[1][1].Latitude # pairs[1][1].Longitude

\* Comparisons of numbers that may be NaN: false as soon as one side is NaN.
FloatLeq(a, b) == a # NaN /\ b # NaN /\ a <= b

FloatEq(a, b) == a # NaN /\ b # NaN /\ a = b

\* C4: closest_pair_index is the smallest index minimizing
\* abs(average_distance - distances[i]), average_distance being the
\* arithmetic mean of the distances; for two places the index is 0 and the
\* average equals the single distance.
C4_ClosestToMean ==
    pc \in {"print_pairs", "print_summary", "done"} =>
        LET dev == AbsDifference(average_distance, distances)
            c == closest_pair_index + 1
        IN /\ FloatEq(average_distance, RoundDiv(Sum(distances), Len(distances)))
           /\ c \in 1..Len(distances)
           /\ \A j \in 1..Len(distances) : FloatLeq(dev[c], dev[j])
           /\ \A j \in 1..(c - 1) : ~FloatLeq(dev[j], dev[c])
           /\ Len(data) = 2 =>
                  closest_pair_index = 0 /\ FloatEq(average_distance, distances[1])

\* C5: generate_places(n) gives n places named "Place 0" .. "Place n-1" in
\* that order, each with Latitude in [-90, 90] and Longitude in [-180, 180].
C5_GeneratedPlaces ==
    source = "random" =>
        /\ Len(data) = n[1]
        /\ \A i \in 1..Len(data) :
               /\ data[i].Name = "Place " \o ToString(i - 1)
               /\ data[i].Latitude >= -90 /\ data[i].Latitude <= 90
               /\ data[i].Longitude >= -180 /\ data[i].Longitude <= 180

\* C6: with fewer than 2 places the run fails with the invalid argument
\* error before pair enumeration begins, and nothing is computed over zero
\* pairs.
C6_TooFewPlacesRejected ==
    (source # "none" /\ Len(data) < 2) =>
        /\ pc \in {"pairs", "exit"}
        /\ pc = "exit" => error = "SystemExit"
        /\ pairs = <<>> /\ coordinates = <<>> /\ distances = <<>>

BadArgument ==
    argv # <<>> /\ (~IsInteger(argv[1]) \/ int(argv[1]) < 2)

\* C7: with a count argument that is not an integer or is < 2 the program
\* exits with a message and a non-zero status before anything is loaded,
\* generated, computed or printed; with an integer >= 2 the places are
\* generated; without an argument they are loaded from the file.
C7_ArgumentHandling ==
    /\ (BadArgument /\ pc # "parse_args") =>
           /\ pc = "exit" /\ error = "SystemExit"
           /\ message # "" /\ status # 0
           /\ source = "none" /\ file = Unread /\ data = <<>>
           /\ pairs = <<>> /\ distances = <<>> /\ output = <<>>
    /\ (argv # <<>> /\ ~BadArgument /\ pc \notin {"parse_args", "get_data"}) =>
           /\ source = "random" /\ file = Unread
           /\ Len(data) = int(argv[1])
    /\ (argv = <<>> /\ pc \notin {"parse_args", "get_data"}) =>
           /\ file # Unread
           /\ source = "file" \/ (pc = "exit" /\ source = "none")

C7_Witness ==
    /\ pc = "exit"
    /\ argv # <<>>
    /\ IsInteger(argv[1])
    /\ int(argv[1]) = 1
    /\ message = "Number of places must be at least 2"

SamePosition(p1, p2) ==
    p1.Latitude = p2.Latitude /\ p1.Longitude = p2.Longitude

\* C8: no distance is NaN, and the distance of a position to itself is 0.
C8_SelfDistanceZero ==
    Returned =>
        \A i \in 1..Len(distances) :
            /\ distances[i] # NaN
            /\ SamePosition(pairs[i][1], pairs[i][2]) => distances[i] = 0

\* C9: a file that is missing, malformed or holds a name twice is rejected
\* with an error and no output, so that every PlaceSet that reaches pair
\* enumeration has unique names.
C9_DuplicateNamesRejected ==
    /\ (file.kind \in {"missing", "unparsable"}
            \/ (file.kind = "lines" /\ ~UniqueNames(read_csv(file.lines)))) =>
           pc = "exit" /\ error # "" /\ pairs = <<>> /\ output = <<>>
    /\ (source = "file" /\ pc # "exit") => UniqueNames(data)

InsideFunction == pc \in {"pairs", "coordinates", "radians", "distance"}

\* C10: no step of pairs_and_great_circle_distances changes its input, and
\* after each step every place of the pairs is a row of the input, with its
\* name and its latitude and longitude in degrees.
C10_InputUnchanged ==
    [][InsideFunction =>
          /\ data' = data
          /\ \A k \in 1..Len(pairs') : \A m \in 1..2 :
                 \E i \in 1..Len(data) : pairs'[k][m] = itertuples(data)[i]]_vars

C10_Witness ==
    /\ pc = "distance"
    /\ Len(pairs) = 3
    /\ coordinates[1][1] # pairs[1][1].Latitude
    /\ coordinates[1][1] = Radians(pairs[1][1].Latitude)

====
